---- MODULE Spec2Model ----
(***************************************************************************)
(* JobRoadmapPopup: the roadmap derived from a job's missing skills and    *)
(* the two-mode view (Overview / Learning Path) over that roadmap.         *)
(*                                                                         *)
(* Numbers.  learningTimeMonths and weeks are JavaScript numbers and may   *)
(* be fractional.  A number q is held as the integer q * Scale (a          *)
(* fixed-point value in units of 1/Scale), so that  months * 4  is exact   *)
(* and "is a whole number" is "is a multiple of Scale".  order, indices    *)
(* and totalMonths are whole and are held as plain integers.               *)
(***************************************************************************)
EXTENDS Integers, Sequences, FiniteSets, TLC

VARIABLES
    skillTaxonomy,      \* the imported lookup: skill name -> taxonomy entry
    job,                \* the job prop; only missingSkills is consumed here
    showLearningPath,   \* useState(false)
    activeSkillIndex,   \* useState(0)
    lastEvent           \* the user or host event handled last

vars == <<skillTaxonomy, job, showLearningPath, activeSkillIndex, lastEvent>>

----------------------------------------------------------------------------
(* Bounds of the model *)

\* fixed-point resolution: numbers are counted in units of 1/Scale
Scale == 8
\* the largest learningTimeMonths of a taxonomy entry, in units of 1/Scale
MaxMonthUnits == 16
\* the longest missingSkills list of a job
MaxSkills == 2

\* names of length 0, 5, 6, 8, 9 and 10
SkillNames == {"", "React", "Python", "Postgres", "Databases", "Kubernetes"}

\* the skill names that may have a taxonomy entry
TaxonomyKeys == {"Kubernetes"}

Difficulties == {"Easy", "Medium", "Hard"}

Categories == {"DevOps", ""}

TaxonomyEntries ==
    [difficulty : Difficulties, learningTimeMonths : 1..MaxMonthUnits,
     category : Categories]

\* every lookup with entries for some of the TaxonomyKeys
Taxonomies ==
    UNION {[K -> TaxonomyEntries] : K \in SUBSET TaxonomyKeys}

\* the lookups the view specification starts from: no entry at all, and
\* the one entry {difficulty: "Hard", learningTimeMonths: 1, category: "DevOps"}
ViewTaxonomies ==
    {t \in Taxonomies :
        \A k \in DOMAIN t :
            t[k] = [difficulty |-> "Hard", learningTimeMonths |-> Scale,
                    category |-> "DevOps"]}

SkillLists == UNION {[1..n -> SkillNames] : n \in 0..MaxSkills}

\* a job record with its missingSkills, and one without the field
\* (line 114 reads job.missingSkills || [])
Jobs ==
    [title : {"Engineer"}, missingSkills : SkillLists]
        \cup [title : {"Engineer"}]

----------------------------------------------------------------------------
(* Numbers *)

Max(a, b) == IF a >= b THEN a ELSE b

Min(a, b) == IF a <= b THEN a ELSE b

\* Math.ceil(x / d) for the fixed-point value x >= 0 and the whole d > 0:
\* the quotient x / (d * Scale) is exact and Math.ceil rounds it up
MathCeil(x, d) == (x + d * Scale - 1) \div (d * Scale)

----------------------------------------------------------------------------
(* generateResources, generateMilestones *)

\* faulty variant of generateResources: nothing for an empty name
generateResourcesNoneForEmptyName(skill) ==
    IF skill = "" THEN << >>
    ELSE << [type |-> "course", title |-> "Complete " \o skill \o " Masterclass",
             provider |-> "Udemy", duration |-> "20 hours"],
            [type |-> "video", title |-> skill \o " Crash Course",
             provider |-> "YouTube", duration |-> "2 hours"],
            [type |-> "project", title |-> "Build a " \o skill \o " Project",
             provider |-> "GitHub", duration |-> "10 hours"],
            [type |-> "article", title |-> skill \o " Best Practices Guide",
             provider |-> "Google", duration |-> "30 mins"] >>

\* the link field is a string built from encodeURIComponent(skill); it is
\* not read by anything modelled here and is left out of the record
generateResources(skill) ==
    << [type |-> "course", title |-> "Complete " \o skill \o " Masterclass",
        provider |-> "Udemy", duration |-> "20 hours"],
       [type |-> "video", title |-> skill \o " Crash Course",
        provider |-> "YouTube", duration |-> "2 hours"],
       [type |-> "project", title |-> "Build a " \o skill \o " Project",
        provider |-> "GitHub", duration |-> "10 hours"],
       [type |-> "article", title |-> skill \o " Best Practices Guide",
        provider |-> "Google", duration |-> "30 mins"] >>

generateMilestones(skill) ==
    << "Understand " \o skill \o " fundamentals and core concepts",
       "Complete hands-on exercises and tutorials",
       "Build a mini-project using " \o skill,
       "Apply " \o skill \o " in a real-world scenario" >>

----------------------------------------------------------------------------
(* The roadmap of a render: lines 114-133 *)

\* const missingSkills = job.missingSkills || []
MissingSkillsOf(j) ==
    IF "missingSkills" \in DOMAIN j THEN j.missingSkills ELSE << >>

\* skillTaxonomy[skill] is undefined for a name without an entry
HasTaxonomy(tax, skill) == skill \in DOMAIN tax

\* faulty variant of DifficultyOf: the taxonomy entry is not consulted
DifficultyOfLengthOnly(tax, skill) ==
    IF Len(skill) > 8 THEN "Hard"
    ELSE IF Len(skill) > 5 THEN "Medium" ELSE "Easy"

\* faulty variant of DifficultyOf: the Hard threshold is off by one
DifficultyOfHardFromEight(tax, skill) ==
    IF HasTaxonomy(tax, skill) /\ tax[skill].difficulty # ""
    THEN tax[skill].difficulty
    ELSE IF Len(skill) >= 8 THEN "Hard"
         ELSE IF Len(skill) > 5 THEN "Medium" ELSE "Easy"

\* taxonomy?.difficulty || (skill.length > 8 ? "Hard" : skill.length > 5 ? "Medium" : "Easy")
DifficultyOf(tax, skill) ==
    IF HasTaxonomy(tax, skill) /\ tax[skill].difficulty # ""
    THEN tax[skill].difficulty
    ELSE IF Len(skill) > 8 THEN "Hard"
         ELSE IF Len(skill) > 5 THEN "Medium" ELSE "Easy"

\* taxonomy?.learningTimeMonths ? taxonomy.learningTimeMonths * 4
\*                              : (difficulty === "Hard" ? 4 : difficulty === "Medium" ? 2 : 1)
\* a fixed-point value: the product is not rounded
WeeksOf(tax, skill) ==
    IF HasTaxonomy(tax, skill) /\ tax[skill].learningTimeMonths # 0
    THEN tax[skill].learningTimeMonths * 4
    ELSE IF DifficultyOf(tax, skill) = "Hard" THEN 4 * Scale
         ELSE IF DifficultyOf(tax, skill) = "Medium" THEN 2 * Scale
         ELSE 1 * Scale

\* taxonomy?.category || "General"
CategoryOf(tax, skill) ==
    IF HasTaxonomy(tax, skill) /\ tax[skill].category # ""
    THEN tax[skill].category
    ELSE "General"

\* faulty variant of RoadmapStep: order is the 0-based index itself
RoadmapStepOrderFromZero(tax, skill, index) ==
    [skill |-> skill,
     difficulty |-> DifficultyOf(tax, skill),
     weeks |-> WeeksOf(tax, skill),
     order |-> index,
     category |-> CategoryOf(tax, skill),
     resources |-> generateResources(skill),
     milestones |-> generateMilestones(skill)]

\* the callback of missingSkills.map, for the element skill at a 0-based index
RoadmapStep(tax, skill, index) ==
    [skill |-> skill,
     difficulty |-> DifficultyOf(tax, skill),
     weeks |-> WeeksOf(tax, skill),
     order |-> index + 1,
     category |-> CategoryOf(tax, skill),
     resources |-> generateResources(skill),
     milestones |-> generateMilestones(skill)]

\* the list without the later occurrences of a repeated name
RECURSIVE WithoutRepeats(_)
WithoutRepeats(skills) ==
    IF Len(skills) = 0 THEN << >>
    ELSE LET front == WithoutRepeats(SubSeq(skills, 1, Len(skills) - 1))
             last == skills[Len(skills)]
         IN  IF \E i \in 1..Len(front) : front[i] = last
             THEN front ELSE Append(front, last)

\* faulty variant of RoadmapSteps: one step per distinct name
RoadmapStepsDeduplicated(tax, skills) ==
    [i \in 1..Len(WithoutRepeats(skills)) |->
        [skill |-> WithoutRepeats(skills)[i],
         difficulty |-> DifficultyOf(tax, WithoutRepeats(skills)[i]),
         weeks |-> WeeksOf(tax, WithoutRepeats(skills)[i]),
         order |-> i,
         category |-> CategoryOf(tax, WithoutRepeats(skills)[i]),
         resources |-> generateResources(WithoutRepeats(skills)[i]),
         milestones |-> generateMilestones(WithoutRepeats(skills)[i])]]

\* missingSkills.map((skill, index) => ...); sequences are 1-based here
RoadmapSteps(tax, skills) ==
    [i \in 1..Len(skills) |-> RoadmapStep(tax, skills[i], i - 1)]

\* steps.reduce((acc, step) => acc + step.weeks, 0), left to right
RECURSIVE Reduce(_, _, _)
Reduce(steps, acc, i) ==
    IF i > Len(steps) THEN acc ELSE Reduce(steps, acc + steps[i].weeks, i + 1)

TotalWeeks(steps) == Reduce(steps, 0, 1)

\* faulty variant of TotalMonths: Math.floor in place of Math.ceil
TotalMonthsFloor(steps) == TotalWeeks(steps) \div (4 * Scale)

\* Math.ceil(totalWeeks / 4)
TotalMonths(steps) == MathCeil(TotalWeeks(steps), 4)

\* the values of the current render
missingSkills == MissingSkillsOf(job)

roadmapSteps == RoadmapSteps(skillTaxonomy, missingSkills)

totalWeeks == TotalWeeks(roadmapSteps)

totalMonths == TotalMonths(roadmapSteps)

----------------------------------------------------------------------------
(* The view: lines 111-112, 164-165, 176, 215, 355-376, 573-577 *)

\* if (showLearningPath && roadmapSteps.length > 0): the Learning Path view
\* is the one rendered; otherwise the Overview is
LearningPathShown == showLearningPath /\ Len(roadmapSteps) > 0

\* const activeStep = roadmapSteps[activeSkillIndex] is undefined for an
\* index past the end, and the Learning Path view reads activeStep.skill:
\* the render throws and nothing of the component stays on screen
RenderThrows == LearningPathShown /\ activeSkillIndex >= Len(roadmapSteps)

Events ==
    {"mount", "start", "back", "select", "previous", "next", "complete",
     "jobChange"}

TypeOK ==
    /\ skillTaxonomy \in Taxonomies
    /\ job \in Jobs
    /\ showLearningPath \in BOOLEAN
    /\ activeSkillIndex \in Int
    /\ lastEvent \in Events

\* faulty variant of StartLearningJourney: the index is reset on entry
StartLearningJourneyResets ==
    /\ ~LearningPathShown
    /\ Len(roadmapSteps) > 0
    /\ showLearningPath' = TRUE
    /\ activeSkillIndex' = 0
    /\ lastEvent' = "start"
    /\ UNCHANGED <<skillTaxonomy, job>>

\* faulty variant of StartLearningJourney: the button is rendered over an
\* empty roadmap too
StartLearningJourneyUnguarded ==
    /\ ~LearningPathShown
    /\ showLearningPath' = TRUE
    /\ lastEvent' = "start"
    /\ UNCHANGED <<skillTaxonomy, job, activeSkillIndex>>

\* "Start My Learning Journey", rendered in the Overview when
\* roadmapSteps.length > 0: setShowLearningPath(true)
StartLearningJourney ==
    /\ ~LearningPathShown
    /\ Len(roadmapSteps) > 0
    /\ showLearningPath' = TRUE
    /\ lastEvent' = "start"
    /\ UNCHANGED <<skillTaxonomy, job, activeSkillIndex>>

\* faulty variant of BackToOverview: leaving discards the active step
BackToOverviewResets ==
    /\ LearningPathShown /\ ~RenderThrows
    /\ showLearningPath' = FALSE
    /\ activeSkillIndex' = 0
    /\ lastEvent' = "back"
    /\ UNCHANGED <<skillTaxonomy, job>>

\* "Back to Overview": setShowLearningPath(false)
BackToOverview ==
    /\ LearningPathShown /\ ~RenderThrows
    /\ showLearningPath' = FALSE
    /\ lastEvent' = "back"
    /\ UNCHANGED <<skillTaxonomy, job, activeSkillIndex>>

\* faulty variant of SelectStep: the 1-based step.order is stored
SelectStepStoresOrder(idx) ==
    /\ LearningPathShown /\ ~RenderThrows
    /\ idx \in 0..(Len(roadmapSteps) - 1)
    /\ activeSkillIndex' = idx + 1
    /\ lastEvent' = "select"
    /\ UNCHANGED <<skillTaxonomy, job, showLearningPath>>

\* a sidebar button, one per step: setActiveSkillIndex(idx)
SelectStep(idx) ==
    /\ LearningPathShown /\ ~RenderThrows
    /\ idx \in 0..(Len(roadmapSteps) - 1)
    /\ activeSkillIndex' = idx
    /\ lastEvent' = "select"
    /\ UNCHANGED <<skillTaxonomy, job, showLearningPath>>

\* faulty variant of PreviousSkill: no Math.max and no disabled button
PreviousSkillUnclamped ==
    /\ LearningPathShown /\ ~RenderThrows
    /\ activeSkillIndex' = activeSkillIndex - 1
    /\ lastEvent' = "previous"
    /\ UNCHANGED <<skillTaxonomy, job, showLearningPath>>

\* "Previous Skill": setActiveSkillIndex(Math.max(0, activeSkillIndex - 1));
\* the button is disabled at index 0, where a press runs no handler
PreviousSkill ==
    /\ LearningPathShown /\ ~RenderThrows
    /\ activeSkillIndex' =
           IF activeSkillIndex = 0 THEN activeSkillIndex
           ELSE Max(0, activeSkillIndex - 1)
    /\ lastEvent' = "previous"
    /\ UNCHANGED <<skillTaxonomy, job, showLearningPath>>

\* "Next Skill", rendered while activeSkillIndex < roadmapSteps.length - 1:
\* setActiveSkillIndex(activeSkillIndex + 1)
NextSkill ==
    /\ LearningPathShown /\ ~RenderThrows
    /\ activeSkillIndex < Len(roadmapSteps) - 1
    /\ activeSkillIndex' = activeSkillIndex + 1
    /\ lastEvent' = "next"
    /\ UNCHANGED <<skillTaxonomy, job, showLearningPath>>

\* "Complete Journey", rendered in place of "Next Skill" otherwise: the
\* button has no onClick
CompleteJourney ==
    /\ LearningPathShown /\ ~RenderThrows
    /\ ~(activeSkillIndex < Len(roadmapSteps) - 1)
    /\ lastEvent' = "complete"
    /\ UNCHANGED <<skillTaxonomy, job, showLearningPath, activeSkillIndex>>

\* faulty variant of JobChange: a new job sends the view back to the Overview
JobChangeResetsView ==
    /\ ~RenderThrows
    /\ job' \in Jobs
    /\ showLearningPath' = FALSE
    /\ activeSkillIndex' = 0
    /\ lastEvent' = "jobChange"
    /\ UNCHANGED skillTaxonomy

\* the host passes another job to the mounted component: the next render
\* reads the new missingSkills; the two useState values are kept
JobChange ==
    /\ ~RenderThrows
    /\ job' \in Jobs
    /\ lastEvent' = "jobChange"
    /\ UNCHANGED <<skillTaxonomy, showLearningPath, activeSkillIndex>>

\* the first render: useState(false), useState(0)
Mounted(taxonomies) ==
    /\ skillTaxonomy \in taxonomies
    /\ job \in Jobs
    /\ showLearningPath = FALSE
    /\ activeSkillIndex = 0
    /\ lastEvent = "mount"

Init == Mounted(ViewTaxonomies)

Next ==
    \/ StartLearningJourney
    \/ BackToOverview
    \/ \E idx \in 0..(MaxSkills - 1) : SelectStep(idx)
    \/ PreviousSkill
    \/ NextSkill
    \/ CompleteJourney
    \/ JobChange

Spec == Init /\ [][Next]_vars

\* the roadmap builder alone, over every taxonomy: the host changes the job
\* and each render derives the roadmap
InitBuild == Mounted(Taxonomies)

NextBuild == JobChange

SpecBuild == InitBuild /\ [][NextBuild]_vars

----------------------------------------------------------------------------
(* The view state controller: C1 - C5, under Spec *)

\* C1: whenever the Learning Path view is shown, activeSkillIndex lies in
\* 0 .. roadmapSteps.length - 1, whatever actions and job changes preceded.
C1_IndexInRange ==
    LearningPathShown =>
        0 <= activeSkillIndex /\ activeSkillIndex <= Len(roadmapSteps) - 1

\* C2 as stated: every press of "Start My Learning Journey" results in
\* activeSkillIndex = 0, on the first entry and on every re-entry.
C2_EnterResetsIndex ==
    [][lastEvent' = "start" => activeSkillIndex' = 0]_vars

\* C2 as amended: entering the Learning Path leaves activeSkillIndex as it
\* is.  The index is 0 at mount and changes only while the Learning Path
\* is shown, so it is 0 on the first entry and, on a re-entry, the index
\* the Learning Path was last left with.
C2_EnterKeepsIndex ==
    /\ [](lastEvent = "mount" => activeSkillIndex = 0)
    /\ [][lastEvent' = "start" => activeSkillIndex' = activeSkillIndex]_vars
    /\ [][activeSkillIndex' # activeSkillIndex => LearningPathShown]_vars

\* a re-entry that shows a step other than the first
C2_Witness == lastEvent = "start" /\ activeSkillIndex # 0

\* C3: the Learning Path view is never shown over an empty roadmap, and
\* "Start My Learning Journey" cannot be pressed while missingSkills is
\* empty.
C3_NoLearningPathOnEmptyRoadmap ==
    /\ LearningPathShown => Len(roadmapSteps) >= 1
    /\ Len(missingSkills) = 0 => ~ENABLED StartLearningJourney

\* the flag is set and the roadmap has become empty: the Overview is shown
C3_Witness ==
    showLearningPath /\ Len(missingSkills) = 0 /\ ~LearningPathShown

\* C4: "Previous Skill" sets the index to max(current - 1, 0); the forward
\* button ("Next Skill", or "Complete Journey" on the last step) sets it to
\* min(current + 1, roadmapSteps.length - 1).
C4_NavigationClamps ==
    [][/\ lastEvent' = "previous" =>
            activeSkillIndex' = Max(activeSkillIndex - 1, 0)
       /\ lastEvent' \in {"next", "complete"} =>
            activeSkillIndex' =
                Min(activeSkillIndex + 1, Len(roadmapSteps) - 1)]_vars

\* "Complete Journey" was pressed on the last of several steps
C4_Witness ==
    /\ lastEvent = "complete"
    /\ Len(roadmapSteps) >= 2
    /\ activeSkillIndex = Len(roadmapSteps) - 1

ViewEvents == {"start", "back", "select", "previous", "next", "complete"}

\* C5: "Back to Overview" changes the display mode only: the roadmap, its
\* totals and activeSkillIndex are as before; and no view action changes
\* the roadmap, so entering again shows the same one.
C5_BackKeepsState ==
    [][/\ lastEvent' = "back" =>
            /\ ~LearningPathShown'
            /\ activeSkillIndex' = activeSkillIndex
            /\ job' = job
       /\ lastEvent' \in ViewEvents =>
            /\ roadmapSteps' = roadmapSteps
            /\ totalWeeks' = totalWeeks
            /\ totalMonths' = totalMonths]_vars

\* the Learning Path was left on a step other than the first
C5_Witness ==
    lastEvent = "back" /\ activeSkillIndex # 0 /\ Len(roadmapSteps) >= 2

----------------------------------------------------------------------------
(* The roadmap builder: C6 - C10, under SpecBuild *)

HasMissingSkills == "missingSkills" \in DOMAIN job

\* the 1-based positions of the steps
Steps == 1..Len(roadmapSteps)

\* C6: one step per element of missingSkills, in input order: as many steps
\* as elements, the step at 0-based position i has skill missingSkills[i]
\* and order i + 1, and a repeated name gives one step per occurrence.
\* (roadmapSteps[n] here is the step at 0-based position n - 1.)
C6_OneStepPerSkillInOrder ==
    HasMissingSkills =>
        /\ Len(roadmapSteps) = Len(job.missingSkills)
        /\ \A n \in 1..Len(job.missingSkills) :
              /\ roadmapSteps[n].skill = job.missingSkills[n]
              /\ roadmapSteps[n].order = (n - 1) + 1

\* a Hard skill of more weeks listed ahead of an Easy one of fewer weeks
C6_Witness ==
    /\ HasMissingSkills
    /\ \E m, n \in Steps :
          /\ m < n
          /\ roadmapSteps[m].difficulty = "Hard"
          /\ roadmapSteps[n].difficulty = "Easy"
          /\ roadmapSteps[m].weeks > roadmapSteps[n].weeks

\* C7 as stated: no two steps of a roadmap have the same skill.
C7_SkillsUnique ==
    \A m, n \in Steps :
        m # n => roadmapSteps[m].skill # roadmapSteps[n].skill

\* C7 as amended: the steps' skills are pairwise distinct exactly when the
\* names of missingSkills are; a name listed twice gives two steps with
\* that skill.
C7_SkillsUniqueIffInputDistinct ==
    C7_SkillsUnique <=>
        \A m, n \in 1..Len(missingSkills) :
            m # n => missingSkills[m] # missingSkills[n]

\* two steps for the same skill
C7_Witness ==
    Len(roadmapSteps) >= 2 /\ roadmapSteps[1].skill = roadmapSteps[2].skill

\* C8: a step whose skill has a taxonomy entry with learningTimeMonths > 0
\* has weeks = ceiling(learningTimeMonths * 4), a whole number.
C8_WeeksRoundedUp ==
    \A n \in Steps :
        LET skill == roadmapSteps[n].skill
        IN  (HasTaxonomy(skillTaxonomy, skill)
                /\ skillTaxonomy[skill].learningTimeMonths > 0) =>
            roadmapSteps[n].weeks =
                Scale * MathCeil(skillTaxonomy[skill].learningTimeMonths * 4, 1)

\* C9: the weeks of every step is a whole number and at least 1.
C9_WeeksPositiveInteger ==
    \A n \in Steps :
        roadmapSteps[n].weeks >= Scale /\ roadmapSteps[n].weeks % Scale = 0

\* the sum of the steps' weeks, taken from the last step backwards
RECURSIVE SumOfWeeks(_, _)
SumOfWeeks(steps, n) ==
    IF n = 0 THEN 0 ELSE steps[n].weeks + SumOfWeeks(steps, n - 1)

\* C10: totalWeeks is the sum of the steps' weeks and totalMonths is the
\* ceiling of totalWeeks / 4, the least whole number of months of 4 weeks
\* that covers totalWeeks; both are 0 for the empty roadmap.
C10_Totals ==
    /\ totalWeeks = SumOfWeeks(roadmapSteps, Len(roadmapSteps))
    /\ totalMonths * 4 * Scale >= totalWeeks
    /\ (totalMonths - 1) * 4 * Scale < totalWeeks
    /\ Len(missingSkills) = 0 =>
          roadmapSteps = << >> /\ totalWeeks = 0 /\ totalMonths = 0

\* several steps whose weeks do not add up to whole months
C10_Witness ==
    Len(roadmapSteps) >= 2 /\ totalWeeks % (4 * Scale) # 0

----------------------------------------------------------------------------
(* The skill classifier: C11, C12, under SpecBuild *)

\* the steps whose skill has no taxonomy entry
StepsWithoutEntry ==
    {n \in Steps : ~HasTaxonomy(skillTaxonomy, roadmapSteps[n].skill)}

\* C11: for a skill without a taxonomy entry the name's length alone
\* decides: more than 8 characters is Hard with 4 weeks, 6 to 8 is Medium
\* with 2 weeks, 5 or fewer is Easy with 1 week.
C11_FallbackByLength ==
    \A n \in StepsWithoutEntry :
        LET step == roadmapSteps[n]
            length == Len(step.skill)
        IN  /\ length >= 9 =>
                  step.difficulty = "Hard" /\ step.weeks = 4 * Scale
            /\ length \in 6..8 =>
                  step.difficulty = "Medium" /\ step.weeks = 2 * Scale
            /\ length <= 5 =>
                  step.difficulty = "Easy" /\ step.weeks = 1 * Scale

\* names of 8 and of 9 characters in one roadmap, neither with an entry
C11_Witness ==
    \E m, n \in StepsWithoutEntry :
        Len(roadmapSteps[m].skill) = 8 /\ Len(roadmapSteps[n].skill) = 9

\* the steps whose skill has a taxonomy entry
StepsWithEntry == Steps \ StepsWithoutEntry

\* C12 as stated: a step whose skill has a taxonomy entry has the entry's
\* difficulty and the entry's category; a step without one has category
\* "General".
C12_DifficultyAndCategoryFromEntry ==
    /\ \A n \in StepsWithEntry :
          LET entry == skillTaxonomy[roadmapSteps[n].skill]
          IN  /\ roadmapSteps[n].difficulty = entry.difficulty
              /\ roadmapSteps[n].category = entry.category
    /\ \A n \in StepsWithoutEntry : roadmapSteps[n].category = "General"

\* C12 as amended: a step whose skill has a taxonomy entry has the entry's
\* difficulty, and the entry's category unless that is the empty string,
\* for which the category is "General"; a step without an entry has
\* category "General".
C12_CategoryFromEntryUnlessEmpty ==
    /\ \A n \in StepsWithEntry :
          LET entry == skillTaxonomy[roadmapSteps[n].skill]
          IN  /\ roadmapSteps[n].difficulty = entry.difficulty
              /\ entry.category # "" =>
                    roadmapSteps[n].category = entry.category
              /\ entry.category = "" => roadmapSteps[n].category = "General"
    /\ \A n \in StepsWithoutEntry : roadmapSteps[n].category = "General"

\* an entry with an empty category and a difficulty other than the one the
\* name's length would give, next to a step without an entry
C12_Witness ==
    /\ \E n \in StepsWithEntry :
          LET entry == skillTaxonomy[roadmapSteps[n].skill]
          IN  /\ entry.category = ""
              /\ entry.difficulty = "Easy"
              /\ Len(roadmapSteps[n].skill) > 8
    /\ StepsWithoutEntry # {}

----------------------------------------------------------------------------
(* Resources and milestones: C13, under SpecBuild *)

\* C13: every step has exactly 4 resources, of types course, video,
\* project, article in that order, from Udemy, YouTube, GitHub, Google, and
\* exactly 4 milestones; so has the step of the empty name.
C13_FourResourcesFourMilestones ==
    \A n \in Steps :
        LET resources == roadmapSteps[n].resources
        IN  /\ Len(resources) = 4
            /\ <<resources[1].type, resources[2].type,
                  resources[3].type, resources[4].type>>
                   = <<"course", "video", "project", "article">>
            /\ <<resources[1].provider, resources[2].provider,
                  resources[3].provider, resources[4].provider>>
                   = <<"Udemy", "YouTube", "GitHub", "Google">>
            /\ Len(roadmapSteps[n].milestones) = 4

\* a step for the empty name next to one for a name with an entry
C13_Witness ==
    /\ \E n \in Steps : roadmapSteps[n].skill = ""
    /\ StepsWithEntry # {}

----------------------------------------------------------------------------
(* Direct selection and job changes: C14, C15, under Spec *)

\* what pressing the sidebar button of the step at 0-based position i
\* leaves behind: index i, the same mode, job and taxonomy
SelectedExactly(i) ==
    /\ activeSkillIndex' = i
    /\ showLearningPath' = showLearningPath
    /\ job' = job
    /\ skillTaxonomy' = skillTaxonomy

\* C14: while the Learning Path is shown, every step position i in
\* 0 .. roadmapSteps.length - 1 can be selected, whatever the current
\* index, and selecting it sets activeSkillIndex to exactly i and changes
\* neither the mode nor the roadmap; after a selection the Learning Path
\* is rendered with the index in range.
C14_SelectSetsIndex ==
    /\ [](LearningPathShown /\ ~RenderThrows =>
            \A i \in 0..(Len(roadmapSteps) - 1) :
                /\ ENABLED SelectStep(i)
                /\ ~ENABLED (SelectStep(i) /\ ~SelectedExactly(i)))
    /\ [][lastEvent' = "select" =>
            /\ LearningPathShown' /\ ~RenderThrows'
            /\ activeSkillIndex' \in 0..(Len(roadmapSteps') - 1)
            /\ roadmapSteps' = roadmapSteps
            /\ totalWeeks' = totalWeeks
            /\ totalMonths' = totalMonths]_vars

\* the last of several steps was selected
C14_Witness ==
    /\ lastEvent = "select"
    /\ Len(roadmapSteps) >= 2
    /\ activeSkillIndex = Len(roadmapSteps) - 1
    /\ LearningPathShown

====
